---- MODULE Spec2Model ----
(***************************************************************************)
(* Model of oci_usage_cost.py: the month-to-date usage aggregation         *)
(* (get_usage_totals, get_usage_totals_by_service), the notification       *)
(* senders, the threshold step and main's sequence of outbound calls.      *)
(*                                                                         *)
(* Python floats are modelled as binary floating-point numbers with a      *)
(* MantBits-bit significand and round-half-to-even addition, scaled so     *)
(* that every value is a natural number.  A nullable field is <<>> for     *)
(* None and <<v>> for the value v.                                         *)
(***************************************************************************)
EXTENDS Integers, Sequences, FiniteSets, TLC

VARIABLES
    items,            \* SpecAgg: usage_response.data.items handed to both loops
    aggTotals,        \* SpecAgg: <<>> or <<(amount, quantity)>> returned by get_usage_totals
    aggByService,     \* SpecAgg: <<>> or <<(amounts, quantities)>> returned by get_usage_totals_by_service
    THRESHOLD,        \* module global: float(os.environ["THRESHOLD"])
    today,            \* module global: datetime.date.today() at import
    start_date,       \* module global
    end_date,         \* module global
    clock,            \* the wall-clock date
    ticks,            \* days the clock has advanced since import
    pc,               \* main's position: "idle" when main is not running
    runDate,          \* the wall-clock date when the current invocation of main started
    outcome,          \* how the last invocation ended: "none", "running", "returned", "raised"
    calls,            \* the outbound calls of the current invocation, in order
    events,           \* the events logged by the current invocation
    totals,           \* main's (total_computed_amount, total_computed_quantity), <<>> before
    byService,        \* main's per-service dicts, <<>> before
    n8n_response,     \* what send_n8n_notification returned, <<>> before
    discord_response, \* what send_discord_notification returned, <<>> if not called
    exceeded_ret      \* what send_discord_if_threshold_exceeded returned, <<>> before

aggVars == <<items, aggTotals, aggByService>>
globals == <<THRESHOLD, today, start_date, end_date>>
runVars == <<pc, runDate, outcome, calls, events, totals, byService,
             n8n_response, discord_response, exceeded_ret>>
vars == <<aggVars, globals, clock, ticks, runVars>>

----------------------------------------------------------------------------
(* Bounds *)

MantBits == 3          \* significand width of the modelled float (53 in CPython)
MaxItems == 3          \* longest item list of a usage response (SpecAgg)
MaxRunItems == 1       \* longest item list of a usage response (Spec)
MaxTicks == 2          \* days the clock advances after import

----------------------------------------------------------------------------
(* Floating-point addition *)

RECURSIVE Pow2(_)
Pow2(n) == IF n = 0 THEN 1 ELSE 2 * Pow2(n - 1)

RECURSIVE Exponent(_, _)
\* the least e with n \div 2^e < 2^MantBits
Exponent(n, e) == IF n \div Pow2(e) < Pow2(MantBits) THEN e ELSE Exponent(n, e + 1)

\* nearest representable value, ties to the even significand
RoundToFloat(n) ==
    LET e == Exponent(n, 0)
        q == n \div Pow2(e)
        r == n % Pow2(e)
        up == (2 * r > Pow2(e)) \/ (2 * r = Pow2(e) /\ q % 2 = 1)
    IN  IF e = 0 THEN n ELSE (IF up THEN q + 1 ELSE q) * Pow2(e)

\* a += b on floats
FAdd(a, b) == RoundToFloat(a + b)

----------------------------------------------------------------------------
(* Usage items *)

None == <<>>
Some(v) == <<v>>
Val(o) == o[1]

NoneLabel == "<None>"                       \* item.service is None
Services == {NoneLabel, "Compute", "Storage"}
AmountValues == {2, Pow2(MantBits) - 1}
QuantityValues == {3}

Nullable(S) == {None} \cup {Some(v) : v \in S}

UsageItems ==
    [service : Services,
     computed_amount : Nullable(AmountValues),
     computed_quantity : Nullable(QuantityValues)]

SeqsUpTo(S, n) == UNION {[1..k -> S] : k \in 0..n}

ItemLists == SeqsUpTo(UsageItems, MaxItems)

----------------------------------------------------------------------------
(* get_usage_totals: the loop over items *)

TotalsMutSwapStep(acc, item) ==
    [amount   |-> IF item.computed_amount # None
                  THEN FAdd(acc.amount, Val(item.computed_amount))
                  ELSE acc.amount,
     quantity |-> IF item.computed_amount # None /\ item.computed_quantity # None
                  THEN FAdd(acc.quantity, Val(item.computed_quantity))
                  ELSE acc.quantity]

TotalsStep(acc, item) ==
    [amount   |-> IF item.computed_amount # None
                  THEN FAdd(acc.amount, Val(item.computed_amount))
                  ELSE acc.amount,
     quantity |-> IF item.computed_quantity # None
                  THEN FAdd(acc.quantity, Val(item.computed_quantity))
                  ELSE acc.quantity]

RECURSIVE TotalsLoop(_, _)
TotalsLoop(acc, its) ==
    IF its = <<>> THEN acc ELSE TotalsLoop(TotalsStep(acc, Head(its)), Tail(its))

\* (total_computed_amount, total_computed_quantity)
UsageTotals(its) == TotalsLoop([amount |-> 0, quantity |-> 0], its)

----------------------------------------------------------------------------
(* get_usage_totals_by_service: the loop over items.  A dict is its keys   *)
(* in insertion order and its values.                                      *)

EmptyDict == [keys |-> <<>>, val |-> [k \in {} |-> 0]]

DictHas(d, k) == k \in DOMAIN d.val

DictSet(d, k, v) ==
    IF DictHas(d, k)
    THEN [d EXCEPT !.val[k] = v]
    ELSE [keys |-> Append(d.keys, k),
          val  |-> [x \in (DOMAIN d.val) \cup {k} |-> IF x = k THEN v ELSE d.val[x]]]

DictInit(d, k) == IF DictHas(d, k) THEN d ELSE DictSet(d, k, 0)

DictAdd(d, k, o) == IF o # None THEN DictSet(d, k, FAdd(d.val[k], Val(o))) ELSE d

ByServiceMutLazyStep(acc, item) ==
    [amounts    |-> IF item.computed_amount # None
                    THEN DictAdd(DictInit(acc.amounts, item.service),
                                 item.service, item.computed_amount)
                    ELSE acc.amounts,
     quantities |-> IF item.computed_quantity # None
                    THEN DictAdd(DictInit(acc.quantities, item.service),
                                 item.service, item.computed_quantity)
                    ELSE acc.quantities]

ByServiceStep(acc, item) ==
    [amounts    |-> DictAdd(DictInit(acc.amounts, item.service),
                            item.service, item.computed_amount),
     quantities |-> DictAdd(DictInit(acc.quantities, item.service),
                            item.service, item.computed_quantity)]

RECURSIVE ByServiceLoop(_, _)
ByServiceLoop(acc, its) ==
    IF its = <<>> THEN acc ELSE ByServiceLoop(ByServiceStep(acc, Head(its)), Tail(its))

\* (total_computed_amounts_by_service, total_computed_quantities_by_service)
UsageTotalsByService(its) ==
    ByServiceLoop([amounts |-> EmptyDict, quantities |-> EmptyDict], its)

----------------------------------------------------------------------------
(* SpecAgg: both aggregations applied to one item list *)

InitAgg ==
    /\ items \in ItemLists
    /\ aggTotals = <<>>
    /\ aggByService = <<>>
    /\ THRESHOLD = 0 /\ today = <<>> /\ start_date = <<>> /\ end_date = <<>>
    /\ clock = <<>> /\ ticks = 0
    /\ pc = "idle" /\ runDate = <<>> /\ outcome = "none"
    /\ calls = <<>> /\ events = {}
    /\ totals = <<>> /\ byService = <<>>
    /\ n8n_response = <<>> /\ discord_response = <<>> /\ exceeded_ret = <<>>

AggregateTotals ==
    /\ aggTotals = <<>>
    /\ aggTotals' = <<UsageTotals(items)>>
    /\ UNCHANGED <<items, aggByService, globals, clock, ticks, runVars>>

AggregateByService ==
    /\ aggByService = <<>>
    /\ aggByService' = <<UsageTotalsByService(items)>>
    /\ UNCHANGED <<items, aggTotals, globals, clock, ticks, runVars>>

NextAgg == AggregateTotals \/ AggregateByService

SpecAgg == InitAgg /\ [][NextAgg]_vars

----------------------------------------------------------------------------
(* Dates: <<year, month, day>> *)

IsLeap(y) == (y % 4 = 0 /\ y % 100 # 0) \/ y % 400 = 0

DaysInMonth(y, m) ==
    IF m = 2 THEN (IF IsLeap(y) THEN 29 ELSE 28)
    ELSE IF m \in {4, 6, 9, 11} THEN 30 ELSE 31

\* d + datetime.timedelta(days=1)
NextDay(d) ==
    IF d[3] < DaysInMonth(d[1], d[2]) THEN <<d[1], d[2], d[3] + 1>>
    ELSE IF d[2] < 12 THEN <<d[1], d[2] + 1, 1>>
    ELSE <<d[1] + 1, 1, 1>>

\* datetime.date(d.year, d.month, 1)
FirstOfMonth(d) == <<d[1], d[2], 1>>

\* d.strftime("%Y-%m-%dT%H:%M:%S.000Z") of a date: midnight, milliseconds 000
Strftime(d) == <<d[1], d[2], d[3], 0, 0, 0, 0>>

StartDates == {<<2024, 1, 30>>, <<2024, 2, 28>>, <<2025, 12, 30>>}

----------------------------------------------------------------------------
(* Outcomes of the outbound calls *)

\* requests.post(...) followed by response.raise_for_status()
PostOutcomes == {"ok", "http_error", "transport_error", "other_exception"}
\* requests.get(...): any response (whatever its status), a
\* requests.RequestException, or another exception
GetOutcomes == {"response", "request_exception", "other_exception"}

Thresholds == {0, 2, Pow2(MantBits) - 1}

\* the items the usage responses of Spec are built from
RunItems ==
    {[service |-> "Compute", computed_amount |-> Some(1), computed_quantity |-> Some(3)],
     [service |-> NoneLabel, computed_amount |-> Some(2), computed_quantity |-> None],
     [service |-> "Storage", computed_amount |-> Some(Pow2(MantBits) - 1),
      computed_quantity |-> Some(3)],
     [service |-> "Compute", computed_amount |-> None, computed_quantity |-> None]}

RunItemLists == SeqsUpTo(RunItems, MaxRunItems)

Call(kind, result) == [kind |-> kind, result |-> result]
QueryCall(kind, result) ==
    [kind |-> kind, result |-> result,
     time_usage_started |-> Strftime(start_date),
     time_usage_ended |-> Strftime(end_date)]

----------------------------------------------------------------------------
(* The notification senders *)

NotificationCatchesMutHttpOnly(o) == o = "http_error"

\* except Exception: every failure of the POST is caught
NotificationCatches(o) == o \in {"http_error", "transport_error", "other_exception"}

\* the dict a sender returns
SenderResult(o) ==
    IF o = "ok" THEN [ok |-> TRUE, status |-> "200"]
    ELSE [ok |-> FALSE, status |-> "Failed"]

ExceedsMutGE(total, threshold) == total >= threshold

\* total_computed_amount > THRESHOLD
Exceeds(total, threshold) == total > threshold

N8nDueMutOnlyExceeded(total) == Exceeds(total, THRESHOLD)

\* "Always send to n8n"
N8nDue(total) == TRUE

\* except requests.RequestException around the healthcheck GET
HeartbeatCatches(o) == o = "request_exception"

----------------------------------------------------------------------------
(* Spec: the process after import, the clock, and invocations of main *)

Init ==
    /\ items = <<>> /\ aggTotals = <<>> /\ aggByService = <<>>
    /\ THRESHOLD \in Thresholds
    /\ clock \in StartDates
    /\ today = clock
    /\ start_date = FirstOfMonth(today)
    /\ end_date = NextDay(today)
    /\ ticks = 0
    /\ pc = "idle" /\ runDate = <<>> /\ outcome = "none"
    /\ calls = <<>> /\ events = {}
    /\ totals = <<>> /\ byService = <<>>
    /\ n8n_response = <<>> /\ discord_response = <<>> /\ exceeded_ret = <<>>

\* a day passes
Tick ==
    /\ ticks < MaxTicks
    /\ clock' = NextDay(clock)
    /\ ticks' = ticks + 1
    /\ UNCHANGED <<aggVars, globals, runVars>>

\* main() is invoked
CallMain ==
    /\ pc = "idle"
    /\ pc' = "get_usage_totals"
    /\ runDate' = clock
    /\ outcome' = "running"
    /\ calls' = <<>> /\ events' = {}
    /\ totals' = <<>> /\ byService' = <<>>
    /\ n8n_response' = <<>> /\ discord_response' = <<>> /\ exceeded_ret' = <<>>
    /\ UNCHANGED <<aggVars, globals, clock, ticks>>

\* main's locals are gone once main has ended
DropLocals ==
    /\ totals' = <<>> /\ byService' = <<>>
    /\ n8n_response' = <<>> /\ discord_response' = <<>> /\ exceeded_ret' = <<>>

\* an exception leaves main
Raise ==
    /\ pc' = "idle"
    /\ outcome' = "raised"
    /\ DropLocals

\* main returns None
Return ==
    /\ pc' = "idle"
    /\ outcome' = "returned"
    /\ DropLocals

GetUsageTotalsRaisesMutSwallowed ==
    /\ pc = "get_usage_totals"
    /\ calls' = Append(calls, QueryCall("total_query", "raised"))
    /\ totals' = <<UsageTotals(<<>>)>>
    /\ pc' = "get_usage_totals_by_service"
    /\ UNCHANGED <<aggVars, globals, clock, ticks, runDate, outcome, events, byService,
                   n8n_response, discord_response, exceeded_ret>>

\* get_usage_totals(): request_summarized_usages raises
GetUsageTotalsRaises ==
    /\ pc = "get_usage_totals"
    /\ calls' = Append(calls, QueryCall("total_query", "raised"))
    /\ Raise
    /\ UNCHANGED <<aggVars, globals, clock, ticks, runDate, events>>

\* get_usage_totals(): the query returns and the items are summed
GetUsageTotalsReturns ==
    /\ pc = "get_usage_totals"
    /\ \E its \in RunItemLists : totals' = <<UsageTotals(its)>>
    /\ calls' = Append(calls, QueryCall("total_query", "ok"))
    /\ pc' = "get_usage_totals_by_service"
    /\ UNCHANGED <<aggVars, globals, clock, ticks, runDate, outcome, events, byService,
                   n8n_response, discord_response, exceeded_ret>>

\* get_usage_totals_by_service(): request_summarized_usages raises
GetUsageTotalsByServiceRaises ==
    /\ pc = "get_usage_totals_by_service"
    /\ calls' = Append(calls, QueryCall("by_service_query", "raised"))
    /\ Raise
    /\ UNCHANGED <<aggVars, globals, clock, ticks, runDate, events>>

\* get_usage_totals_by_service() returns; main logs usage_totals and one
\* service_usage per service
GetUsageTotalsByServiceReturns ==
    /\ pc = "get_usage_totals_by_service"
    /\ \E its \in RunItemLists :
         /\ byService' = <<UsageTotalsByService(its)>>
         /\ events' = events \cup {"usage_totals"}
                      \cup (IF its = <<>> THEN {} ELSE {"service_usage"})
    /\ calls' = Append(calls, QueryCall("by_service_query", "ok"))
    /\ pc' = "send_n8n_notification"
    /\ UNCHANGED <<aggVars, globals, clock, ticks, runDate, outcome, totals,
                   n8n_response, discord_response, exceeded_ret>>

\* send_n8n_notification(total_computed_amount, total_computed_quantity)
SendN8nNotification ==
    /\ pc = "send_n8n_notification"
    /\ IF N8nDue(Val(totals).amount)
       THEN \E o \in PostOutcomes :
              /\ calls' = Append(calls, Call("n8n_post", o))
              /\ IF o = "ok" \/ NotificationCatches(o)
                 THEN /\ n8n_response' = <<SenderResult(o)>>
                      /\ events' = events \cup
                           {IF o = "ok" THEN "n8n_notification_sent"
                            ELSE "n8n_notification_failed"}
                      /\ pc' = "send_discord_if_threshold_exceeded"
                      /\ UNCHANGED <<outcome, totals, byService,
                                     discord_response, exceeded_ret>>
                 ELSE /\ Raise
                      /\ UNCHANGED events
       ELSE /\ pc' = "send_discord_if_threshold_exceeded"
            /\ UNCHANGED <<calls, n8n_response, events, outcome, totals, byService,
                           discord_response, exceeded_ret>>
    /\ UNCHANGED <<aggVars, globals, clock, ticks, runDate>>

\* if not send_discord_if_threshold_exceeded(total_computed_amount):
\*     log threshold_not_exceeded
SendDiscordIfThresholdExceeded ==
    /\ pc = "send_discord_if_threshold_exceeded"
    /\ IF Exceeds(Val(totals).amount, THRESHOLD)
       THEN \E o \in PostOutcomes :
              /\ calls' = Append(calls, Call("discord_post", o))
              /\ IF o = "ok" \/ NotificationCatches(o)
                 THEN /\ discord_response' = <<SenderResult(o)>>
                      /\ exceeded_ret' = <<SenderResult(o).ok>>
                      /\ events' = events \cup
                           (IF SenderResult(o).ok
                            THEN {"discord_notification_sent"}
                            ELSE {"discord_notification_failed",
                                  "threshold_not_exceeded"})
                      /\ pc' = "healthcheck"
                      /\ UNCHANGED <<outcome, totals, byService, n8n_response>>
                 ELSE /\ Raise
                      /\ UNCHANGED events
       ELSE /\ exceeded_ret' = <<FALSE>>
            /\ events' = events \cup {"threshold_not_exceeded"}
            /\ pc' = "healthcheck"
            /\ UNCHANGED <<calls, discord_response, outcome, totals, byService,
                           n8n_response>>
    /\ UNCHANGED <<aggVars, globals, clock, ticks, runDate>>

\* requests.get(HEALTHCHECKS_URL, timeout=10) in its try/except; main ends
Healthcheck ==
    /\ pc = "healthcheck"
    /\ \E o \in GetOutcomes :
         /\ calls' = Append(calls, Call("healthcheck_get", o))
         /\ IF o = "response"
            THEN /\ events' = events \cup {"healthcheck_ping_success"}
                 /\ Return
            ELSE IF HeartbeatCatches(o)
            THEN /\ events' = events \cup {"healthcheck_ping_failed"}
                 /\ Return
            ELSE /\ Raise
                 /\ UNCHANGED events
    /\ UNCHANGED <<aggVars, globals, clock, ticks, runDate>>

Next ==
    \/ Tick
    \/ CallMain
    \/ GetUsageTotalsRaises
    \/ GetUsageTotalsReturns
    \/ GetUsageTotalsByServiceRaises
    \/ GetUsageTotalsByServiceReturns
    \/ SendN8nNotification
    \/ SendDiscordIfThresholdExceeded
    \/ Healthcheck

Spec == Init /\ [][Next]_vars

----------------------------------------------------------------------------
(* Reference sums for the aggregation claims: Python's sum() of a list of  *)
(* floats, left to right from 0.                                           *)

RECURSIVE FSum(_)
FSum(xs) == IF xs = <<>> THEN 0 ELSE FAdd(FSum(SubSeq(xs, 1, Len(xs) - 1)), xs[Len(xs)])

RECURSIVE Values(_)
\* the values of the non-null entries of a list of nullable fields, in order
Values(os) ==
    IF os = <<>> THEN <<>>
    ELSE IF Head(os) = None THEN Values(Tail(os))
    ELSE <<Val(Head(os))>> \o Values(Tail(os))

Amounts(its) == [i \in 1..Len(its) |-> its[i].computed_amount]
Quantities(its) == [i \in 1..Len(its) |-> its[i].computed_quantity]

RECURSIVE Carrying(_, _)
\* the items of its whose service label is l, in order
Carrying(its, l) ==
    IF its = <<>> THEN <<>>
    ELSE IF Head(its).service = l THEN <<Head(its)>> \o Carrying(Tail(its), l)
    ELSE Carrying(Tail(its), l)

Labels(its) == {its[i].service : i \in 1..Len(its)}

NoDuplicates(s) == \A i, j \in 1..Len(s) : s[i] = s[j] => i = j

\* sum(d.values()): the dict's values in insertion order
DictSum(d) == FSum([i \in 1..Len(d.keys) |-> d.val[d.keys[i]]])

\* C1: get_usage_totals returns (A, Q), A the sum of the non-null
\* computed_amount fields and Q the sum of the non-null computed_quantity
\* fields, nulls contributing nothing; the empty list yields (0, 0).
C1_TotalsSumNonNull ==
    aggTotals # <<>> =>
        /\ Val(aggTotals).amount = FSum(Values(Amounts(items)))
        /\ Val(aggTotals).quantity = FSum(Values(Quantities(items)))
        /\ (items = <<>> => Val(aggTotals) = [amount |-> 0, quantity |-> 0])

\* C1 witness: totals computed for a list holding an item with a null amount
\* and a non-null quantity, and an item with a non-null amount and a null quantity.
C1_Witness ==
    /\ aggTotals # <<>>
    /\ \E i, j \in 1..Len(items) :
          /\ items[i].computed_amount = None /\ items[i].computed_quantity # None
          /\ items[j].computed_amount # None /\ items[j].computed_quantity = None
    /\ Val(aggTotals).amount > 0
    /\ Val(aggTotals).quantity > 0

\* C2: both maps returned by get_usage_totals_by_service have exactly the
\* service labels of the items as keys (None a label of its own, each key
\* once); the value under a label is the sum of the non-null amounts (resp.
\* quantities) of the items carrying that label, 0 when all are null.
C2_ByServiceKeysAndSums ==
    aggByService # <<>> =>
        LET r == Val(aggByService) IN
        /\ DOMAIN r.amounts.val = Labels(items)
        /\ DOMAIN r.quantities.val = Labels(items)
        /\ {r.amounts.keys[i] : i \in 1..Len(r.amounts.keys)} = Labels(items)
        /\ {r.quantities.keys[i] : i \in 1..Len(r.quantities.keys)} = Labels(items)
        /\ NoDuplicates(r.amounts.keys)
        /\ NoDuplicates(r.quantities.keys)
        /\ \A l \in Labels(items) :
              /\ r.amounts.val[l] = FSum(Values(Amounts(Carrying(items, l))))
              /\ r.quantities.val[l] = FSum(Values(Quantities(Carrying(items, l))))

\* C2 witness: a breakdown with the None label and another label as keys,
\* one label repeated, and one label all of whose amounts are null (value 0).
C2_Witness ==
    /\ aggByService # <<>>
    /\ NoneLabel \in Labels(items)
    /\ Cardinality(Labels(items)) >= 2
    /\ \E i, j \in 1..Len(items) : i # j /\ items[i].service = items[j].service
    /\ \E l \in Labels(items) :
          /\ \A i \in 1..Len(items) :
                items[i].service = l => items[i].computed_amount = None
          /\ Val(aggByService).amounts.val[l] = 0
          /\ Val(aggByService).quantities.val[l] > 0

\* C3 (as claimed): on one item list, the per-service amounts summed over
\* all service keys equal the total amount, and likewise the quantities.
C3_BucketSumsEqualTotals ==
    (aggTotals # <<>> /\ aggByService # <<>>) =>
        /\ DictSum(Val(aggByService).amounts) = Val(aggTotals).amount
        /\ DictSum(Val(aggByService).quantities) = Val(aggTotals).quantity

----------------------------------------------------------------------------
(* Claims about main's run (Spec) *)

Made(kind) == \E i \in 1..Len(calls) : calls[i].kind = kind
Count(kind) == Cardinality({i \in 1..Len(calls) : calls[i].kind = kind})
Failed(kind) == \E i \in 1..Len(calls) : calls[i].kind = kind /\ calls[i].result # "ok"
QueryKinds == {"total_query", "by_service_query"}
PostKinds == {"n8n_post", "discord_post"}
BothQueriesOk ==
    \A k \in QueryKinds : \E i \in 1..Len(calls) : calls[i].kind = k /\ calls[i].result = "ok"
Ended == pc = "idle" /\ outcome \in {"returned", "raised"}

CallOrder == <<"total_query", "by_service_query", "n8n_post", "discord_post",
               "healthcheck_get">>
Rank(kind) == CHOOSE i \in 1..Len(CallOrder) : CallOrder[i] = kind

\* C4: the alert POST is attempted iff total_computed_amount > THRESHOLD
\* (strictly); at or below the threshold send_discord_if_threshold_exceeded
\* makes no dispatch call and returns False.
C4_StrictThreshold ==
    /\ pc \in {"get_usage_totals", "get_usage_totals_by_service",
               "send_n8n_notification", "send_discord_if_threshold_exceeded"}
         => ~Made("discord_post")
    /\ pc = "healthcheck" =>
         /\ Made("discord_post") <=> Val(totals).amount > THRESHOLD
         /\ Val(totals).amount <= THRESHOLD =>
              exceeded_ret = <<FALSE>> /\ discord_response = <<>>

\* C4 witness: the threshold step has run with a total equal to a positive
\* threshold, without a Discord POST and returning False.
C4_Witness ==
    /\ pc = "healthcheck"
    /\ THRESHOLD > 0
    /\ Val(totals).amount = THRESHOLD
    /\ ~Made("discord_post")
    /\ exceeded_ret = <<FALSE>>

\* C5 (as claimed): once the threshold step has run, threshold_not_exceeded
\* is logged iff total_computed_amount <= THRESHOLD, whatever the outcome of
\* the alert POST.
C5_NotExceededLoggedIffNotExceeded ==
    pc = "healthcheck" =>
        ("threshold_not_exceeded" \in events <=> Val(totals).amount <= THRESHOLD)

\* C6: a failed n8n or Discord POST becomes the result {ok: False} and never
\* ends the run: after a failed n8n POST the threshold step still runs and
\* posts to Discord when the total exceeds the threshold, and a run whose
\* two queries succeeded ends only after the healthcheck GET was attempted.
C6_ChannelIsolation ==
    /\ (calls # <<>> /\ calls[Len(calls)].kind \in PostKinds) => outcome = "running"
    /\ (calls # <<>> /\ calls[Len(calls)].kind = "n8n_post")
         => pc \in {"send_discord_if_threshold_exceeded", "healthcheck"}
    /\ (pc \in {"send_discord_if_threshold_exceeded", "healthcheck"} /\ Failed("n8n_post"))
         => n8n_response = <<[ok |-> FALSE, status |-> "Failed"]>>
    /\ (pc = "healthcheck" /\ Failed("discord_post"))
         => discord_response = <<[ok |-> FALSE, status |-> "Failed"]>>
    /\ (pc = "healthcheck" /\ Val(totals).amount > THRESHOLD) => Made("discord_post")
    /\ (Ended /\ BothQueriesOk) => Made("healthcheck_get")

\* C6 witness: a run that ended after the n8n POST and the Discord POST both
\* failed and the healthcheck GET was made.
C6_Witness ==
    /\ Ended
    /\ Failed("n8n_post")
    /\ Failed("discord_post")
    /\ Made("healthcheck_get")

\* C7 (as claimed): whatever the failure of the healthcheck GET, it is
\* caught and logged as healthcheck_ping_failed and main returns normally.
C7_HeartbeatNeverRaises ==
    (Ended /\ Made("healthcheck_get")) =>
        /\ outcome = "returned"
        /\ calls[Len(calls)].result # "response" => "healthcheck_ping_failed" \in events

\* C8: a usage query that raises ends the run there with the exception
\* leaving main: no n8n POST, no Discord POST and no healthcheck GET is made.
C8_QueryErrorEndsRun ==
    \A i \in 1..Len(calls) :
        (calls[i].kind \in QueryKinds /\ calls[i].result = "raised") =>
            /\ i = Len(calls)
            /\ pc = "idle"
            /\ outcome = "raised"
            /\ ~Made("n8n_post") /\ ~Made("discord_post") /\ ~Made("healthcheck_get")

\* C8 witness: the by-service query raised after the total query succeeded.
C8_Witness ==
    /\ outcome = "raised"
    /\ Len(calls) = 2
    /\ calls[1].kind = "total_query" /\ calls[1].result = "ok"
    /\ calls[2].kind = "by_service_query" /\ calls[2].result = "raised"

\* C9 (as claimed): the usage queries of an invocation of main carry the
\* first day of the month current when that invocation started and the day
\* after that invocation's date.
C9_PeriodFromInvocationClock ==
    \A i \in 1..Len(calls) :
        calls[i].kind \in QueryKinds =>
            /\ calls[i].time_usage_started = Strftime(FirstOfMonth(runDate))
            /\ calls[i].time_usage_ended = Strftime(NextDay(runDate))

\* C10: the outbound calls of a run occur in the order total query,
\* by-service query, n8n POST, Discord POST, healthcheck GET, each at most
\* once; when both queries succeed the n8n POST is made exactly once whatever
\* the total, and the healthcheck GET exactly once, as the last call.
C10_OrderNoRetry ==
    /\ \A i, j \in 1..Len(calls) :
         i < j => Rank(calls[i].kind) < Rank(calls[j].kind)
    /\ pc \in {"send_discord_if_threshold_exceeded", "healthcheck"}
         => Count("n8n_post") = 1
    /\ (Ended /\ BothQueriesOk) =>
         /\ Count("n8n_post") = 1
         /\ Count("healthcheck_get") = 1
         /\ calls[Len(calls)].kind = "healthcheck_get"

\* C10 witness: a run below the threshold that ended after exactly the two
\* queries, the n8n POST and the healthcheck GET.
C10_Witness ==
    /\ Ended
    /\ Len(calls) = 4
    /\ calls[3].kind = "n8n_post"
    /\ calls[4].kind = "healthcheck_get"
    /\ "threshold_not_exceeded" \in events

====
